---- MODULE Spec2Model ----
(***************************************************************************)
(* Model of the book service of main.go: four HTTP handlers (/book,       *)
(* /search, /store, /activity) in front of an Elasticsearch index and a   *)
(* Redis sorted set per user.                                              *)
(*                                                                         *)
(* Strings the program formats are kept as records (a result, an error    *)
(* with its wrapping context); titles and author names are single         *)
(* analysed terms, so that a match query is equality of the term and the  *)
(* title sort is the order of the term.                                    *)
(***************************************************************************)
EXTENDS Integers, Sequences, FiniteSets, TLC

VARIABLES es, redis, now, req, resp, stdout, esCalls

vars == <<es, redis, now, req, resp, stdout, esCalls>>

----------------------------------------------------------------------------
(* Bounds of the model.                                                    *)

\* documents of the largest collection a search or a statistics call is run on
MaxCatalog == 11
\* largest price of a document and of a price range bound
MaxPrice == 2
\* the wall clock stops at this reading (in scaled nanoseconds since start)
MaxClock == 1
\* nanoseconds per second, scaled down: time.Time.Nanosecond() is in
\* 0 .. NanosPerSecond - 1
NanosPerSecond == 2
\* largest cardinality estimate the store reports, in halves
MaxEstimate2 == 5

(* Program constants.                                                      *)

\* Size(10) of searchBook
PageSize == 10
\* From(0) of searchBook
PageFrom == 0
\* ZRevRangeWithScores(userId, 0, 2)
RangeStart == 0
RangeStop == 2
\* the "no price filter" value search() passes when price_range is not "a-b"
Unset == -1

----------------------------------------------------------------------------
(* Values.                                                                 *)

Users == {"u1", "u2"}
\* user_id as getParamValue returns it: "" when the parameter is missing
UserParams == Users \cup {""}

\* titles in ascending term order; "" is the missing parameter
TitleOrder == <<"a", "b", "c">>
Titles == {TitleOrder[i] : i \in 1..Len(TitleOrder)}
Authors == {"x", "y"}
Prices == Unset..MaxPrice

TitleRank(t) == CHOOSE i \in 1..Len(TitleOrder) : TitleOrder[i] = t

Book(title, author, price) == [title |-> title, author |-> author, price |-> price]

Range(from, to) == [From |-> from, To |-> to]

\* an error value: the wrapping context and the call that failed
Err(context) == [kind |-> "error", msg |-> context]
NoErr == [kind |-> "nil"]

\* what a handler writes to the http.ResponseWriter
Item(val) == [kind |-> "result", val |-> val]
\* the handler panicked: net/http recovers, logs and drops the connection
Panic == [kind |-> "panic"]

\* the empty string as a result
Empty == [op |-> "empty"]

----------------------------------------------------------------------------
(* The Elasticsearch index "books": a function from the ids present to the *)
(* documents.                                                              *)

Index(store, id, book) ==
    [i \in DOMAIN store \cup {id} |-> IF i = id THEN book ELSE store[i]]

Delete(store, id) == [i \in DOMAIN store \ {id} |-> store[i]]

Update(store, id, title) == [store EXCEPT ![id].title = title]

\* the q of searchBook: the predicates appended to the bool query's must
MatchTitle(title) == [field |-> "title", text |-> title]
MatchAuthor(author) == [field |-> "author_name", text |-> author]
RangePrice(from, to) == [field |-> "price", from |-> from, to |-> to]

Satisfies(book, pred) ==
    CASE pred.field = "title" -> book.title = pred.text
      [] pred.field = "author_name" -> book.author = pred.text
      [] pred.field = "price" -> pred.from <= book.price /\ book.price <= pred.to

\* a bool query with these must clauses; with none it matches every document
BoolMust(store, q) ==
    {i \in DOMAIN store : \A k \in 1..Len(q) : Satisfies(store[i], q[k])}

\* Sort("title", true): ascending by title, documents of one title by id
Before(store, i, j) ==
    \/ TitleRank(store[i].title) < TitleRank(store[j].title)
    \/ store[i].title = store[j].title /\ i < j

RECURSIVE SortByTitle(_, _)
SortByTitle(store, ids) ==
    IF ids = {} THEN <<>>
    ELSE LET first == CHOOSE i \in ids : \A j \in ids \ {i} : Before(store, i, j)
         IN  <<first>> \o SortByTitle(store, ids \ {first})

PageAll(hits, from, size) == hits

\* From(from).Size(size) of a sorted hit list
Page(hits, from, size) ==
    SubSeq(hits, from + 1, IF Len(hits) < from + size THEN Len(hits) ELSE from + size)

----------------------------------------------------------------------------
(* Catalog operations: one Elasticsearch call each. ok is whether the     *)
(* call succeeds. Each returns the (string, error) pair of the Go         *)
(* function, the index after the call and what it printed.                *)

Reply(val, err, store) == [val |-> val, err |-> err, es |-> store, out |-> <<>>, panic |-> FALSE]

addBook(store, id, book, ok) ==
    IF ~ok THEN Reply(Empty, Err("cannot add the book"), store)
    ELSE Reply([op |-> "Indexed", id |-> id], NoErr, Index(store, id, book))

deleteBook(store, id, ok) ==
    IF ~ok THEN Reply(Empty, Err("cannot delete the book"), store)
    ELSE IF id \in DOMAIN store
         THEN Reply([op |-> "Delete", id |-> id], NoErr, Delete(store, id))
         ELSE Reply(Empty, NoErr, store)

getBook(store, id, ok) ==
    IF ~ok THEN Reply(Empty, Err("Cannot GET a book"), store)
    ELSE IF id \in DOMAIN store
         THEN Reply([op |-> "Source", book |-> store[id]], NoErr, store)
         ELSE Reply(Empty, NoErr, store)

\* the store answers an update of a missing document with an error;
\* updateBook returns the store's error as it is
updateBook(store, id, title, ok) ==
    IF ~ok \/ id \notin DOMAIN store THEN Reply(Empty, Err("elastic"), store)
    ELSE Reply([op |-> "New version", id |-> id], NoErr, Update(store, id, title))

----------------------------------------------------------------------------
(* Filter Composer and search.                                             *)

composeQueryOr(title, authorName, priceRange) ==
    (IF title # "" THEN <<MatchTitle(title)>> ELSE <<>>)
    \o (IF authorName # "" THEN <<MatchAuthor(authorName)>> ELSE <<>>)
    \o (IF ~(priceRange.From = Unset \/ priceRange.To = Unset)
        THEN <<RangePrice(priceRange.From, priceRange.To)>> ELSE <<>>)

\* q of searchBook
composeQuery(title, authorName, priceRange) ==
    (IF title # "" THEN <<MatchTitle(title)>> ELSE <<>>)
    \o (IF authorName # "" THEN <<MatchAuthor(authorName)>> ELSE <<>>)
    \o (IF ~(priceRange.From = Unset /\ priceRange.To = Unset)
        THEN <<RangePrice(priceRange.From, priceRange.To)>> ELSE <<>>)

\* what client.Search()...Do(ctx) answers when it succeeds
SearchResult(store, q) ==
    LET matching == BoolMust(store, q)
        sorted == SortByTitle(store, matching)
        page == Page(sorted, PageFrom, PageSize)
    IN  [Hits |-> [k \in 1..Len(page) |-> store[page[k]]],
         TotalHits |-> Cardinality(matching)]

\* the error of Do is dropped: on a failed call searchResult is nil and
\* searchResult.Hits is a nil dereference
searchBook(store, title, authorName, priceRange, ok) ==
    LET searchResult == SearchResult(store, composeQuery(title, authorName, priceRange))
    IN  IF ~ok THEN [Reply(Empty, NoErr, store) EXCEPT !.panic = TRUE]
        ELSE IF Len(searchResult.Hits) > 0
             THEN [Reply([op |-> "books", list |-> searchResult.Hits], NoErr, store)
                   EXCEPT !.out = <<[total |-> searchResult.TotalHits]>>]
             ELSE Reply(Empty, NoErr, store)

----------------------------------------------------------------------------
(* Aggregation Summarizer.                                                 *)

\* what the aggregation search can answer: the call fails; the response
\* holds no "distinctAuthors" aggregation; it holds one with a value (a
\* float, here in halves)
AggFail == [agg |-> "fail"]
AggMissing == [agg |-> "missing"]
AggValue(v2) == [agg |-> "value", v2 |-> v2]
AggReplies == {AggFail, AggMissing} \cup {AggValue(v2) : v2 \in 0..MaxEstimate2}

Trunc(v2) == v2 \div 2

\* math.Round of v2 / 2 for v2 >= 0: half away from zero
Round(v2) == (v2 + 1) \div 2

AggsRes(books, authors) == [op |-> "AggsRes", Books |-> books, Authors |-> authors]

\* the error of Do is overwritten: on a failed call searchResult is nil and
\* searchResult.Aggregations is a nil dereference
storeBook(store, reply) ==
    IF reply.agg = "fail" THEN [Reply(Empty, NoErr, store) EXCEPT !.panic = TRUE]
    ELSE IF reply.agg = "missing" THEN Reply(Empty, NoErr, store)
    ELSE Reply(AggsRes(Cardinality(DOMAIN store), Round(reply.v2)), NoErr, store)

----------------------------------------------------------------------------
(* The Redis sorted sets, one per user id: a set of (member, score) with   *)
(* no member twice.                                                        *)

\* the members the handlers write, in lexicographic order
LabelOrder == <<"route=book, method=DELETE", "route=book, method=GET",
                "route=book, method=POST", "route=book, method=PUT",
                "route=search, method=GET", "route=store, method=GET">>
Labels == {LabelOrder[i] : i \in 1..Len(LabelOrder)}
LabelRank(m) == CHOOSE i \in 1..Len(LabelOrder) : LabelOrder[i] = m

Z(score, member) == [Score |-> score, Member |-> member]

\* ZADD: a member already in the set gets the new score
ZAdd(zset, z) == {e \in zset : e.Member # z.Member} \cup {z}

\* the order of ZREVRANGE: score descending, then member descending
Above(e, f) ==
    \/ e.Score > f.Score
    \/ e.Score = f.Score /\ LabelRank(e.Member) > LabelRank(f.Member)

RECURSIVE ZRev(_)
ZRev(zset) ==
    IF zset = {} THEN <<>>
    ELSE LET top == CHOOSE e \in zset : \A f \in zset \ {e} : Above(e, f)
         IN  <<top>> \o ZRev(zset \ {top})

ZRevRangeAll(zset, start, stop) == ZRev(zset)

ZRevRangeWithScores(zset, start, stop) ==
    LET all == ZRev(zset)
    IN  SubSeq(all, start + 1, IF Len(all) < stop + 1 THEN Len(all) ELSE stop + 1)

\* time.Now().Nanosecond() at clock reading t
Nanosecond(t) == t % NanosPerSecond

Label(route, method) == "route=" \o route \o ", method=" \o method

\* fault: "redisConnect" (the ping fails), "redisCmd" (ZADD fails)
writeToRedis(db, userID, route, method, fault, t) ==
    IF fault = "redisConnect" THEN [redis |-> db, err |-> Err("cannot connect to Redis")]
    ELSE IF fault = "redisCmd" THEN [redis |-> db, err |-> Err("cannot set key in Redis")]
    ELSE [redis |-> [db EXCEPT ![userID] = ZAdd(@, Z(Nanosecond(t), Label(route, method)))],
          err |-> NoErr]

----------------------------------------------------------------------------
(* The HTTP handlers. A request is its method, its parameters as           *)
(* getParamValue returns them, and the one thing that goes wrong while it  *)
(* is served:                                                              *)
(*   "esConnect"    connectElasticSearch fails                             *)
(*   "param"        a parameter does not convert                           *)
(*   "esCall"       the Elasticsearch call fails                           *)
(*   "redisConnect" the Redis ping fails                                   *)
(*   "redisCmd"     the Redis command fails                                *)
(* d is the time that passes until the request reads the clock: requests   *)
(* are served one after the other, and each reading of the clock is later  *)
(* than the one before.                                                    *)

Methods == {"GET", "DELETE", "POST", "PUT", "PATCH"}
\* the ids /book requests name
BookIds == {1}
Faults == {"none", "esConnect", "param", "esCall", "redisConnect", "redisCmd"}
RedisFaults == {"none", "redisConnect", "redisCmd"}
\* the time that passes before a clock reading; 0 for no reading
Steps == 0..NanosPerSecond

Request(route, method, userId, fault) ==
    [route |-> route, method |-> method, userId |-> userId, fault |-> fault]

Unsupported(route, method) == Err("Unsupported request for /" \o route \o " " \o method)

\* a reply of the catalog operation the method selects
bookSwitch(store, method, id, title, authorName, price, ok) ==
    CASE method = "GET" -> getBook(store, id, ok)
      [] method = "DELETE" -> deleteBook(store, id, ok)
      [] method = "POST" -> updateBook(store, id, title, ok)
      [] method = "PUT" -> addBook(store, id, Book(title, authorName, price), ok)
      [] OTHER -> Reply(Empty, Unsupported("book", method), store)

\* whether the request gets as far as writeToRedis
Records(reply, userId) == reply.err = NoErr /\ ~reply.panic /\ userId # ""

\* whether the request gets as far as time.Now() in writeToRedis
ReadsClock(reply, userId, fault) == Records(reply, userId) /\ fault # "redisConnect"

\* a request is drawn with a fault only if it reaches the call that fails,
\* and with a time step only if it reads the clock
Reaches(route, method, userId, fault, reply, d) ==
    /\ fault \in {"redisConnect", "redisCmd"} => Records(reply, userId)
    /\ fault = "esCall" => reply.err # Unsupported(route, method)
    /\ d # 0 <=> ReadsClock(reply, userId, fault)

bookFinishAlways(db, reply, userId, method, fault, t) ==
    LET w == writeToRedis(db, userId, "book", method, fault, t)
    IN  IF userId # ""
        THEN [redis |-> w.redis,
              resp |-> <<IF reply.err # NoErr THEN reply.err ELSE Item(reply.val)>>
                       \o (IF w.err # NoErr THEN <<w.err>> ELSE <<>>)]
        ELSE [redis |-> db,
              resp |-> <<IF reply.err # NoErr THEN reply.err ELSE Item(reply.val)>>]

\* the end of book: the error, or the result and then the activity record
bookFinish(db, reply, userId, method, fault, t) ==
    IF reply.err # NoErr THEN [redis |-> db, resp |-> <<reply.err>>]
    ELSE IF userId # ""
         THEN LET w == writeToRedis(db, userId, "book", method, fault, t)
              IN  [redis |-> w.redis,
                   resp |-> <<Item(reply.val)>>
                            \o (IF w.err # NoErr THEN <<w.err>> ELSE <<>>)]
         ELSE [redis |-> db, resp |-> <<Item(reply.val)>>]

searchFinishAbort(db, reply, userId, method, fault, t) ==
    IF reply.panic THEN [redis |-> db, resp |-> <<Panic>>]
    ELSE IF reply.err # NoErr THEN [redis |-> db, resp |-> <<reply.err>>]
    ELSE IF userId # ""
         THEN LET w == writeToRedis(db, userId, "search", method, fault, t)
              IN  [redis |-> w.redis,
                   resp |-> IF w.err # NoErr THEN <<w.err>> ELSE <<Item(reply.val)>>]
         ELSE [redis |-> db, resp |-> <<Item(reply.val)>>]

\* the end of search: the error, or the activity record and then the result
searchFinish(db, reply, userId, method, fault, t) ==
    IF reply.panic THEN [redis |-> db, resp |-> <<Panic>>]
    ELSE IF reply.err # NoErr THEN [redis |-> db, resp |-> <<reply.err>>]
    ELSE IF userId # ""
         THEN LET w == writeToRedis(db, userId, "search", method, fault, t)
              IN  [redis |-> w.redis,
                   resp |-> (IF w.err # NoErr THEN <<w.err>> ELSE <<>>)
                            \o <<Item(reply.val)>>]
         ELSE [redis |-> db, resp |-> <<Item(reply.val)>>]

\* the end of store: as that of search
storeFinish(db, reply, userId, method, fault, t) ==
    IF reply.panic THEN [redis |-> db, resp |-> <<Panic>>]
    ELSE IF reply.err # NoErr THEN [redis |-> db, resp |-> <<reply.err>>]
    ELSE IF userId # ""
         THEN LET w == writeToRedis(db, userId, "store", method, fault, t)
              IN  [redis |-> w.redis,
                   resp |-> (IF w.err # NoErr THEN <<w.err>> ELSE <<>>)
                            \o <<Item(reply.val)>>]
         ELSE [redis |-> db, resp |-> <<Item(reply.val)>>]

\* a handler that returned before its switch
Early(route, method, userId, fault, err, d) ==
    /\ d = 0
    /\ req' = Request(route, method, userId, fault)
    /\ resp' = <<err>>
    /\ stdout' = <<>>
    /\ esCalls' = 0
    /\ UNCHANGED <<es, redis, now>>

\* a handler that went through its switch
Served(route, method, userId, fault, reply, end, d) ==
    /\ Reaches(route, method, userId, fault, reply, d)
    /\ req' = Request(route, method, userId, fault)
    /\ es' = reply.es
    /\ redis' = end.redis
    /\ resp' = end.resp
    /\ stdout' = reply.out
    /\ esCalls' = IF reply.err = Unsupported(route, method) THEN 0 ELSE 1
    /\ now' = IF ReadsClock(reply, userId, fault) THEN now + d ELSE now

book(method, userId, id, title, authorName, price, fault, d) ==
    IF fault = "esConnect"
    THEN Early("book", method, userId, fault, Err("cannot connect to elastic search"), d)
    ELSE IF fault = "param"
    THEN Early("book", method, userId, fault,
               Err("conversion from string to int for field price failed"), d)
    ELSE LET reply == bookSwitch(es, method, id, title, authorName, price, fault # "esCall")
         IN  Served("book", method, userId, fault, reply,
                    bookFinish(redis, reply, userId, method, fault, now + d), d)

search(method, userId, title, authorName, priceRange, fault, d) ==
    IF fault = "esConnect"
    THEN Early("search", method, userId, fault, Err("cannot connect to elastic search"), d)
    ELSE IF fault = "param"
    THEN Early("search", method, userId, fault, Err("price range conversion failed"), d)
    ELSE LET reply == IF method = "GET"
                      THEN searchBook(es, title, authorName, priceRange, fault # "esCall")
                      ELSE Reply(Empty, Unsupported("search", method), es)
         IN  Served("search", method, userId, fault, reply,
                    searchFinish(redis, reply, userId, method, fault, now + d), d)

store(method, userId, aggregation, fault, d) ==
    IF fault = "esConnect"
    THEN Early("store", method, userId, fault, Err("cannot connect to elastic search"), d)
    ELSE LET reply == IF method = "GET"
                      THEN storeBook(es, IF fault = "esCall" THEN AggFail ELSE aggregation)
                      ELSE Reply(Empty, Unsupported("store", method), es)
         IN  Served("store", method, userId, fault, reply,
                    storeFinish(redis, reply, userId, method, fault, now + d), d)

\* what activity writes: one line per member of the top of the user's set
activityLines(db, method, userId, fault) ==
    IF fault = "redisConnect" THEN <<Err("cannot connect to Redis")>>
    ELSE IF method # "GET" THEN <<Unsupported("activity", method)>>
    ELSE IF userId = "" THEN <<>>
    ELSE IF fault = "redisCmd" THEN <<Err("cannot get key from Redis")>>
    ELSE LET resultSet == ZRevRangeWithScores(db[userId], RangeStart, RangeStop)
         IN  [k \in 1..Len(resultSet) |-> Item(resultSet[k].Member)]

activity(method, userId, fault) ==
    /\ fault = "redisCmd" => method = "GET" /\ userId # ""
    /\ req' = Request("activity", method, userId, fault)
    /\ resp' = activityLines(redis, method, userId, fault)
    /\ stdout' = <<>>
    /\ esCalls' = 0
    /\ UNCHANGED <<es, redis, now>>

----------------------------------------------------------------------------
(* The service from its start: an empty index, no activity.                *)

NoRequest == Request("", "", "", "none")

Init ==
    /\ es = <<>>
    /\ redis = [u \in Users |-> {}]
    /\ now = 0
    /\ req = NoRequest
    /\ resp = <<>>
    /\ stdout = <<>>
    /\ esCalls = 0

\* the parameters the requests of this specification carry; a /book request
\* carries a title when it adds or updates
ReqTitles == {"a", "b"}
ReqAggs == {AggMissing, AggValue(3)}

\* the time steps that keep the clock within bound
StepsTo(bound) == {d \in Steps : now + d <= bound}

bookRequest(faults, bound) ==
    \E method \in Methods, userId \in UserParams, id \in BookIds,
       fault \in faults, d \in StepsTo(bound) :
        \E title \in (IF method \in {"PUT", "POST"} THEN ReqTitles ELSE {""}) :
            book(method, userId, id, title, "x", 1, fault, d)

searchRequest(faults, bound) ==
    \E method \in {"GET", "POST"}, userId \in UserParams,
       fault \in faults, d \in StepsTo(bound) :
        search(method, userId, "", "", Range(Unset, Unset), fault, d)

storeRequest(faults, bound) ==
    \E method \in {"GET", "POST"}, userId \in UserParams, aggregation \in ReqAggs,
       fault \in faults \ {"param"}, d \in StepsTo(bound) :
        store(method, userId, aggregation, fault, d)

activityRequest(faults) ==
    \E method \in {"GET", "POST"}, userId \in UserParams,
       fault \in faults \cap RedisFaults :
        activity(method, userId, fault)

Next ==
    \/ bookRequest(Faults, MaxClock)
    \/ searchRequest(Faults, MaxClock)
    \/ storeRequest(Faults, MaxClock)
    \/ activityRequest(Faults)

Spec == Init /\ [][Next]_vars

----------------------------------------------------------------------------
(* The same service while the clock runs through one full second, so that  *)
(* its nanosecond reading wraps; only the store calls fail.                *)

LogFaults == {"none", "esCall", "redisCmd"}

NextLog ==
    \/ bookRequest(LogFaults, NanosPerSecond)
    \/ searchRequest(LogFaults, NanosPerSecond)
    \/ storeRequest(LogFaults, NanosPerSecond)
    \/ activityRequest(LogFaults)

SpecLog == Init /\ [][NextLog]_vars

----------------------------------------------------------------------------
(* searchBook and storeBook on a collection: the index holds a run of the  *)
(* documents of Catalog, and one call is made with any criteria.           *)

Catalog == [i \in 1..MaxCatalog |->
               Book(TitleOrder[((2 * i) % Len(TitleOrder)) + 1],
                    IF i % 2 = 0 THEN "x" ELSE "y",
                    ((3 * i) % (MaxPrice + 2)) + Unset)]

Collections == {[i \in lo..hi |-> Catalog[i]] : lo \in 1..2, hi \in 0..MaxCatalog}

Call(route, title, authorName, priceRange, reply) ==
    [route |-> route, title |-> title, authorName |-> authorName,
     priceRange |-> priceRange, reply |-> reply]

Returned(reply) ==
    IF reply.panic THEN <<Panic>>
    ELSE IF reply.err # NoErr THEN <<reply.err>>
    ELSE <<Item(reply.val)>>

searchBookCall(title, authorName, priceRange, ok) ==
    LET reply == searchBook(es, title, authorName, priceRange, ok)
    IN  /\ req = NoRequest
        /\ req' = Call("searchBook", title, authorName, priceRange, ok)
        /\ resp' = Returned(reply)
        /\ stdout' = reply.out
        /\ esCalls' = 1
        /\ UNCHANGED <<es, redis, now>>

storeBookCall(aggregation) ==
    LET reply == storeBook(es, aggregation)
    IN  /\ req = NoRequest
        /\ req' = Call("storeBook", "", "", Range(Unset, Unset), aggregation)
        /\ resp' = Returned(reply)
        /\ stdout' = reply.out
        /\ esCalls' = 1
        /\ UNCHANGED <<es, redis, now>>

InitQuery ==
    /\ es \in Collections
    /\ redis = [u \in Users |-> {}]
    /\ now = 0
    /\ req = NoRequest
    /\ resp = <<>>
    /\ stdout = <<>>
    /\ esCalls = 0

NextQuery ==
    \/ \E title \in Titles \cup {""}, authorName \in Authors \cup {""},
          from \in Prices, to \in Prices, ok \in BOOLEAN :
           searchBookCall(title, authorName, Range(from, to), ok)
    \/ \E aggregation \in AggReplies : storeBookCall(aggregation)

SpecQuery == InitQuery /\ [][NextQuery]_vars

----------------------------------------------------------------------------
(* /activity on a log: one user's sorted set holds any members with any    *)
(* scores, and the log is read.                                            *)

Scores == 0..(NanosPerSecond - 1)

ZSets == {{Z(f[m], m) : m \in {l \in Labels : f[l] \in Scores}} :
             f \in [Labels -> Scores \cup {Unset}]}

InitActivity ==
    /\ es = <<>>
    /\ \E u \in Users, zset \in ZSets :
           redis = [v \in Users |-> IF v = u THEN zset ELSE {}]
    /\ now = 0
    /\ req = NoRequest
    /\ resp = <<>>
    /\ stdout = <<>>
    /\ esCalls = 0

NextActivity ==
    \E method \in {"GET", "POST"}, userId \in UserParams, fault \in RedisFaults :
        activity(method, userId, fault)

SpecActivity == InitActivity /\ [][NextActivity]_vars

----------------------------------------------------------------------------
(* Properties.                                                             *)

RecordRoutes == {"book", "search", "store"}

\* the last request ended in its result alone: its primary operation
\* succeeded and, for a request with a user id, so did writeToRedis
Succeeded == req.route \in RecordRoutes /\ Len(resp) = 1 /\ resp[1].kind = "result"

RecordedOk == Succeeded /\ req.userId # ""

\* the last request ended in an error or a panic of its primary operation
PrimaryFailed ==
    req.route \in RecordRoutes /\ Len(resp) = 1 /\ resp[1].kind \in {"error", "panic"}

Min(a, b) == IF a < b THEN a ELSE b

\* C1: each successful record call grows the user's log by exactly one
\* entry, whatever its label.
C1_GrowsByOne ==
    [][RecordedOk' =>
         Cardinality(redis'[req'.userId]) = Cardinality(redis[req'.userId]) + 1]_vars

\* C2: an entry recorded at a later clock time than every entry of the log
\* has a higher score than all of them and is read back first.
C2_LaterScoresHigher ==
    [][RecordedOk' =>
         LET u == req'.userId
             m == Label(req'.route, req'.method)
             top == ZRevRangeWithScores(redis'[u], RangeStart, RangeStop)
         IN  /\ \A e \in redis'[u] : e.Member # m => e.Score < Nanosecond(now')
             /\ top[1].Member = m]_vars

----------------------------------------------------------------------------

ScoreOf(zset, m) == (CHOOSE e \in zset : e.Member = m).Score

ActivityRead ==
    req.route = "activity" /\ req.method = "GET" /\ req.userId # "" /\ req.fault = "none"

----------------------------------------------------------------------------

SearchOk == req.route = "searchBook" /\ req.reply = TRUE

\* the documents returned by the last searchBook call
Hits == IF resp[1].val = Empty THEN <<>> ELSE resp[1].val.list

\* the documents that meet every criterion that is present
Wanted ==
    {i \in DOMAIN es :
        /\ req.title # "" => es[i].title = req.title
        /\ req.authorName # "" => es[i].author = req.authorName
        /\ ~(req.priceRange.From = -1 /\ req.priceRange.To = -1) =>
               req.priceRange.From <= es[i].price /\ es[i].price <= req.priceRange.To}

\* C4: the query is the conjunction of exactly the criteria present: the
\* documents matched are those that meet each of them, all documents when
\* none is present, and (-1, -1) is no price filter.
C4_ExactlyThePresentCriteria ==
    SearchOk =>
        /\ resp[1].kind = "result"
        /\ \A k \in 1..Len(Hits) : Hits[k] \in {es[i] : i \in Wanted}
        /\ Wanted = {} <=> Hits = <<>>
        /\ Wanted # {} => stdout = <<[total |-> Cardinality(Wanted)]>>
        /\ req.title = "" /\ req.authorName = "" /\ req.priceRange = Range(-1, -1) =>
               Wanted = DOMAIN es
        /\ ~(req.priceRange.From = -1 /\ req.priceRange.To = -1) =>
               \A k \in 1..Len(Hits) :
                   req.priceRange.From <= Hits[k].price /\ Hits[k].price <= req.priceRange.To

C4_Witness ==
    /\ SearchOk
    /\ req.title = "" /\ req.authorName # ""
    /\ req.priceRange = Range(-1, 0)
    /\ Len(Hits) > 0
    /\ \E i \in DOMAIN es : es[i].author = req.authorName /\ es[i].price > 0

TitleCount(t) == Cardinality({i \in Wanted : es[i].title = t})
HitCount(t) == Cardinality({k \in 1..Len(Hits) : Hits[k].title = t})

StoreAnswered == req.route = "storeBook" /\ req.reply # AggFail

\* C6: the summary is absent exactly when the response holds no estimate;
\* otherwise books is the total hit count and authors the estimate rounded
\* to the nearest integer, halves away from zero.
C6_SummaryOrAbsent ==
    StoreAnswered =>
        /\ resp[1].kind = "result"
        /\ resp[1].val = Empty <=> req.reply = AggMissing
        /\ req.reply # AggMissing =>
               /\ resp[1].val.Books = Cardinality(DOMAIN es)
               /\ resp[1].val.Authors >= 0
               /\ 2 * resp[1].val.Authors - req.reply.v2 \in {0, 1}

C6_Witness ==
    /\ StoreAnswered
    /\ req.reply = AggValue(3)
    /\ resp = <<Item(AggsRes(MaxCatalog, 2))>>

----------------------------------------------------------------------------

RedisErrors == {Err("cannot connect to Redis"), Err("cannot set key in Redis")}

\* C7: a failed store call ends the request with that error: the failed
\* Elasticsearch or Redis read is the whole response, and a failed activity
\* append is in the response.
C7_FailureSurfaced ==
    /\ req.fault = "esCall" => Len(resp) = 1 /\ resp[1].kind = "error"
    /\ req.route = "activity" /\ req.fault # "none" =>
           Len(resp) = 1 /\ resp[1].kind = "error"
    /\ req.route \in RecordRoutes /\ req.fault \in {"redisConnect", "redisCmd"} =>
           \E k \in 1..Len(resp) : resp[k] \in RedisErrors

RecordingFailed ==
    req.route \in RecordRoutes /\ req.fault \in {"redisConnect", "redisCmd"}

\* C8: when the activity append fails after the primary operation of /book,
\* /search or /store succeeded, the response holds the result and the
\* recording error, and the index keeps what the operation did.
C8_RecordingFailureNonFatal ==
    RecordingFailed =>
        /\ Len(resp) = 2
        /\ \E k \in 1..2 : resp[k] \in RedisErrors
        /\ \E k \in 1..2 :
               /\ resp[k].kind = "result"
               /\ resp[k].val.op = "Indexed" => resp[k].val.id \in DOMAIN es
               /\ resp[k].val.op = "New version" => resp[k].val.id \in DOMAIN es
               /\ resp[k].val.op = "Delete" => resp[k].val.id \notin DOMAIN es

C8_Witness ==
    /\ RecordingFailed
    /\ req.route = "search"
    /\ resp = <<Err("cannot set key in Redis"), Item(Empty)>>

\* C9: a PUT, POST or DELETE on /book that completed appends one entry to
\* the log of its user and changes no other log.
C9_MutationAppendsOne ==
    [][RecordedOk' /\ req'.route = "book" /\ req'.method \in {"PUT", "POST", "DELETE"} =>
         /\ Cardinality(redis'[req'.userId]) = Cardinality(redis[req'.userId]) + 1
         /\ \A v \in Users \ {req'.userId} : redis'[v] = redis[v]]_vars

\* C10: a request whose primary operation failed, and a read of /activity,
\* leave every log as it was; an unsupported method also makes no call to
\* the index.
C10_FailureRecordsNothing ==
    [][/\ PrimaryFailed' \/ req'.route = "activity" => redis' = redis
       /\ req'.route \in RecordRoutes
          /\ resp' = <<Unsupported(req'.route, req'.method)>> =>
              es' = es /\ esCalls' = 0]_vars

C10_Witness ==
    /\ PrimaryFailed
    /\ req.userId \in Users
    /\ redis[req.userId] # {}
    /\ resp = <<Unsupported("book", "PATCH")>>

====
